---- MODULE Spec2Model ----
(***************************************************************************)
(* DynamoDBStore (src/dynamodb_store.go): a create-once key/value store    *)
(* for encrypted data keys, kept in a DynamoDB table and fronted by a      *)
(* go-cache instance with time-based expiry.                               *)
(*                                                                         *)
(* Several goroutines call GetEncryptedDataKeys and                        *)
(* SetEncryptedDataKeysConditionally concurrently.  A call is cut at its   *)
(* shared-state accesses: the cache lookup (line 47), the GetItem request  *)
(* (line 61), the PutItem request (line 96) and the cache population       *)
(* (lines 78, 108).  Local computation (marshalling, decoding, the error   *)
(* tests) belongs to the step of the access it follows or precedes.        *)
(***************************************************************************)
EXTENDS Integers, Sequences, FiniteSets, TLC

\* ------------------------------------------------------------------ bounds
NumProcs == 2          \* concurrent callers
MaxTime  == 2          \* clock ticks (minutes) the model lets pass
MaxCalls == 3          \* calls invoked in one behaviour

Procs     == 1..NumProcs
Ids       == {"a", "b"}
KeyNames  == {"dek"}
Materials == {"", "ct1"}
\* CacheExpiration / CacheCleanupInterval values of DynamoDBConfig (minutes)
Expirations == {0, 1}
Cleanups    == {0, 1}

\* ------------------------------------------------- Go values: map[string]string
\* A Go map value is nil or a (possibly empty) finite mapping.
NilMap == [isNil |-> TRUE, m |-> << >>]
MkMap(f) == [isNil |-> FALSE, m |-> f]
GoMaps ==
  {NilMap} \cup {MkMap(f) : f \in UNION {[D -> Materials] : D \in SUBSET KeyNames}}
\* The keys a caller passes: non-empty mappings (spec 4.1, Input of SetConditionally)
KeysArgs == {g \in GoMaps : ~g.isNil /\ DOMAIN g.m # {}}

\* ------------------------------------------- DynamoDB attribute values / items
AVNull == [t |-> "NULL"]
AVS(s) == [t |-> "S", s |-> s]
AVM(f) == [t |-> "M", m |-> f]
NoItem == [t |-> "nil"]

\* dynamodbattribute encoder: the empty string is encoded as NULL
EncodeString(s) == IF s = "" THEN AVNull ELSE AVS(s)
\* dynamodbattribute encoder: a nil or empty map is encoded as NULL
EncodeMap(g) ==
  IF g.isNil \/ DOMAIN g.m = {} THEN AVNull
  ELSE AVM([k \in DOMAIN g.m |-> EncodeString(g.m[k])])
\* dynamodbattribute.MarshalMap(item{ID: id, Keys: keys})
MarshalMap(id, keys) == [t |-> "item", id |-> EncodeString(id), keys |-> EncodeMap(keys)]

\* dynamodbattribute decoder into a string: NULL gives the zero value
DecodeStringOk(av) == av.t \in {"NULL", "S"}
DecodeString(av) == IF av.t = "S" THEN av.s ELSE ""
\* faulty variant: every attribute is accepted where a map is expected
DecodeMapOk_Lenient(av) == TRUE
\* faulty variant: the payload is not decoded (the field stays at its zero value)
DecodeMap_DropsPayload(av) == NilMap
\* dynamodbattribute decoder into map[string]string: NULL gives the nil map
DecodeMapOk(av) ==
  \/ av.t = "NULL"
  \/ av.t = "M" /\ \A k \in DOMAIN av.m : DecodeStringOk(av.m[k])
DecodeMap(av) ==
  IF av.t = "M" THEN MkMap([k \in DOMAIN av.m |-> DecodeString(av.m[k])]) ELSE NilMap
\* dynamodbattribute.UnmarshalMap(result.Item, &item): err and item.Keys
\* (a nil item leaves the zero value: no error, nil keys)
UnmarshalOk(it) == it = NoItem \/ (DecodeStringOk(it.id) /\ DecodeMapOk(it.keys))
UnmarshalKeys(it) == IF it = NoItem THEN NilMap ELSE DecodeMap(it.keys)

\* A record as the backend may hand it back when its payload is not a map
Garble(it) == [it EXCEPT !.keys = AVS("junk")]

\* --------------------------------------------------------------- go-cache
NoEntry == [Object |-> NilMap, Expiration |-> -1]
\* cache.New(de, ci): a default expiration of 0 means "never expires"
DefaultExpiration(cfgExpiration) == IF cfgExpiration = 0 THEN -1 ELSE cfgExpiration
\* Item.Expired at time t
Expired(e, t) == e.Expiration > 0 /\ t > e.Expiration
\* faulty variant: an entry is served until the janitor deletes it
CacheFound_IgnoresExpiry(c, k, t) == c[k] # NoEntry
\* faulty variant: a lookup deletes the expired entry it meets
CacheAfterGet_EvictsExpired(c, k, t) ==
  IF c[k] # NoEntry /\ Expired(c[k], t) THEN [c EXCEPT ![k] = NoEntry] ELSE c
\* faulty variant: the cache never answers
CacheFound_Never(c, k, t) == FALSE
\* cache.Get(k): found only when present and not expired
CacheFound(c, k, t) == c[k] # NoEntry /\ ~Expired(c[k], t)
\* faulty variant: a lookup that finds the entry pushes its expiry back
CacheAfterGet_Touches(c, k, t) ==
  IF c[k] # NoEntry /\ ~Expired(c[k], t) /\ c[k].Expiration > 0
  THEN [c EXCEPT ![k].Expiration = @ + 1] ELSE c
\* cache.Get(k) reads under a read lock: the items stay as they are
CacheAfterGet(c, k, t) == c
\* faulty variant: the entry is stored with cache.NoExpiration
CacheSet_NoExpiration(c, k, x, t, de) == [c EXCEPT ![k] = [Object |-> x, Expiration |-> 0]]
\* cache.Set(k, x, cache.DefaultExpiration)
CacheSet(c, k, x, t, de) ==
  [c EXCEPT ![k] = [Object |-> x, Expiration |-> IF de > 0 THEN t + de ELSE 0]]
\* janitor: cache.DeleteExpired()
DeleteExpired(c, t) ==
  [k \in DOMAIN c |-> IF c[k] # NoEntry /\ Expired(c[k], t) THEN NoEntry ELSE c[k]]

\* ------------------------------------------------------------------ state
VARIABLES
  store,       \* the DynamoDB table: id -> item or NoItem
  keysCache,   \* s.keysCache: id -> entry or NoEntry
  now,         \* the clock go-cache reads
  cfg,         \* DynamoDBConfig: CacheExpiration, CacheCleanupInterval
  call,        \* per caller: the call it is in and its locals
  last,        \* the call that returned most recently, with what it returned
  ncalls,      \* calls invoked so far
  winners      \* history: id -> keys of the Set calls that returned nil, in order

vars == <<store, keysCache, now, cfg, call, last, ncalls, winners>>

NoErr == [kind |-> "nil", id |-> ""]
BackendError == [kind |-> "Backend", id |-> ""]
UnmarshalError == [kind |-> "Unmarshal", id |-> ""]
IDAlreadyExistsStoreError(id) == [kind |-> "AlreadyExists", id |-> id]

\* A call: position, arguments, locals, result (keys, err) and its history:
\*   nreq     backend requests it has issued
\*   src      where a returned value came from ("cache" or "store")
\*   prior    the keys of the Set calls on its id that had returned nil when
\*            it was invoked
\*   out      what the backend answered to its request ("none" before it)
\*   expired  its cache lookup met an entry whose time-to-live had elapsed
\*   stale    the keys of that entry
\*   empty    its backend request met a table without a record for its id
\*   touched  it has changed the cache content
\*   cached   when it returned, the cache served its id with the keys it
\*            returned (Get) or was given (Set)
\*   hit      (Get) when it was invoked the cache held an entry for its id
\*            whose time-to-live had not elapsed
\*   over     its keysCache.Set replaced an entry whose time-to-live had not
\*            elapsed by one that expires later
Idle ==
  [pc |-> "idle", op |-> "none", id |-> "", arg |-> NilMap, keys |-> NilMap,
   err |-> NoErr, nreq |-> 0, src |-> "none", prior |-> << >>, out |-> "none",
   expired |-> FALSE, stale |-> NilMap, empty |-> FALSE, touched |-> FALSE,
   cached |-> FALSE, hit |-> FALSE, over |-> FALSE]

Init ==
  /\ store = [k \in Ids |-> NoItem]
  /\ keysCache = [k \in Ids |-> NoEntry]
  /\ now = 0
  /\ cfg \in [CacheExpiration : Expirations, CacheCleanupInterval : Cleanups]
  /\ call = [p \in Procs |-> Idle]
  /\ last = Idle
  /\ ncalls = 0
  /\ winners = [k \in Ids |-> << >>]

\* Callers are interchangeable: the next call is made by the first idle one
CanInvoke(p) ==
  /\ call[p].pc = "idle"
  /\ \A q \in Procs : q < p => call[q].pc # "idle"
  /\ ncalls < MaxCalls

\* History only: the entry e was inserted with a time-to-live that has elapsed at t
TtlElapsed(e, t) == e # NoEntry /\ e.Expiration > 0 /\ t > e.Expiration

\* History only: writing c2 replaces a live entry of c1 for k by a later expiry
Extends(c1, c2, k, t) ==
  /\ c1[k] # NoEntry /\ ~TtlElapsed(c1[k], t)
  /\ c2[k].Expiration > c1[k].Expiration

\* A call's record at invocation
Invoked(op, id, arg) ==
  [Idle EXCEPT !.op = op, !.id = id, !.arg = arg, !.prior = winners[id]]

\* The call c of caller p returns (keys, err)
Return(p, c, keys, err) ==
  /\ call' = [call EXCEPT ![p] = Idle]
  /\ last' = [c EXCEPT !.pc = "done", !.keys = keys, !.err = err,
                       !.cached = /\ CacheFound(keysCache', c.id, now)
                                  /\ keysCache'[c.id].Object =
                                       IF c.op = "Set" THEN c.arg ELSE keys]

\* GetEncryptedDataKeys, lines 45-49: the cache lookup
GetLookup(p, id) ==
  /\ CanInvoke(p)
  /\ ncalls' = ncalls + 1
  /\ keysCache' = CacheAfterGet(keysCache, id, now)
  /\ LET c == [Invoked("Get", id, NilMap) EXCEPT
                 !.expired = TtlElapsed(keysCache[id], now),
                 !.hit = keysCache[id] # NoEntry /\ ~TtlElapsed(keysCache[id], now),
                 !.stale = IF TtlElapsed(keysCache[id], now)
                           THEN keysCache[id].Object ELSE NilMap,
                 !.touched = keysCache' # keysCache]
     IN IF CacheFound(keysCache, id, now)
        THEN Return(p, [c EXCEPT !.src = "cache"], keysCache[id].Object, NoErr)
        ELSE /\ call' = [call EXCEPT ![p] = [c EXCEPT !.pc = "GetItem"]]
             /\ last' = last
  /\ UNCHANGED <<store, now, cfg, winners>>

\* faulty variant: the read is not keyed by id and returns a record of the table
GetItemResult_AnyId(id, out) ==
  IF \E k \in Ids : store[k] # NoItem
  THEN store[CHOOSE k \in Ids : store[k] # NoItem] ELSE NoItem
\* What GetItemWithContext answers: an error, or the item (nil when absent);
\* "garbled" is a record whose payload does not decode
GetItemOutcomes == {"ok", "err", "garbled"}
GetItemResult(id, out) == IF out = "garbled" THEN Garble(store[id]) ELSE store[id]

\* faulty variant: the nil test on result.Item is missing
ItemIsNil_Never(item) == FALSE
\* line 67: result.Item == nil
ItemIsNil(item) == item = NoItem

\* GetEncryptedDataKeys, lines 51-76: the consistent read and the decoding
GetItem(p, out) ==
  /\ call[p].pc = "GetItem"
  /\ out = "garbled" => store[call[p].id] # NoItem
  /\ keysCache' = keysCache
  /\ LET c == [call[p] EXCEPT !.nreq = @ + 1, !.src = "store", !.out = out,
                              !.empty = store[call[p].id] = NoItem]
         item == GetItemResult(c.id, out)
     IN IF out = "err" THEN Return(p, c, NilMap, BackendError)
        ELSE IF ItemIsNil(item) THEN Return(p, c, NilMap, NoErr)
        ELSE IF ~UnmarshalOk(item) THEN Return(p, c, NilMap, UnmarshalError)
        ELSE /\ call' = [call EXCEPT ![p] =
                  [c EXCEPT !.pc = "GetSet", !.keys = UnmarshalKeys(item)]]
             /\ last' = last
  /\ UNCHANGED <<store, now, cfg, ncalls, winners>>

\* GetEncryptedDataKeys, lines 78-79: populate the cache and return the keys
GetSet(p) ==
  /\ call[p].pc = "GetSet"
  /\ keysCache' = CacheSet(keysCache, call[p].id, call[p].keys, now,
                           DefaultExpiration(cfg.CacheExpiration))
  /\ Return(p, [call[p] EXCEPT !.touched = keysCache' # keysCache,
                                !.over = Extends(keysCache, keysCache', call[p].id, now)],
            call[p].keys, NoErr)
  /\ UNCHANGED <<store, now, cfg, ncalls, winners>>

\* What PutItemWithContext answers: the conditional insert is decided by the
\* table ("ok"), or the request fails for another reason ("err")
PutItemOutcomes == {"ok", "err"}

\* faulty variant: the insert carries no condition
ConditionalCheckFailed_Never(id) == FALSE
\* faulty variant: existence is decided by the cache instead of the table
ConditionalCheckFailed_FromCache(id) == CacheFound(keysCache, id, now)
\* lines 89-99: attribute_not_exists(id) does not hold of the table
ConditionalCheckFailed(id) == store[id] # NoItem

\* SetEncryptedDataKeysConditionally, lines 85-106: marshal, conditional insert
PutItem(p, id, keys, out) ==
  /\ CanInvoke(p)
  /\ ncalls' = ncalls + 1
  /\ keysCache' = keysCache
  /\ LET c == [Invoked("Set", id, keys) EXCEPT !.nreq = 1, !.out = out,
                                              !.empty = store[id] = NoItem]
     IN IF out = "err"
        THEN Return(p, c, NilMap, BackendError) /\ store' = store
        ELSE IF ConditionalCheckFailed(id)
        THEN Return(p, c, NilMap, IDAlreadyExistsStoreError(id)) /\ store' = store
        ELSE /\ call' = [call EXCEPT ![p] = [c EXCEPT !.pc = "SetCache"]]
             /\ last' = last
             /\ store' = [store EXCEPT ![id] = MarshalMap(id, keys)]
  /\ UNCHANGED <<now, cfg, winners>>

\* SetEncryptedDataKeysConditionally, lines 108-109: populate the cache, return nil
SetCache(p) ==
  /\ call[p].pc = "SetCache"
  /\ keysCache' = CacheSet(keysCache, call[p].id, call[p].arg, now,
                           DefaultExpiration(cfg.CacheExpiration))
  /\ Return(p, [call[p] EXCEPT !.touched = keysCache' # keysCache,
                                !.over = Extends(keysCache, keysCache', call[p].id, now)],
            NilMap, NoErr)
  /\ winners' = [winners EXCEPT ![call[p].id] = Append(@, call[p].arg)]
  /\ UNCHANGED <<store, now, cfg, ncalls>>

\* time passes
Tick ==
  /\ now < MaxTime
  /\ now' = now + 1
  /\ UNCHANGED <<store, keysCache, cfg, call, last, ncalls, winners>>

\* go-cache's janitor, started by cache.New when the cleanup interval is positive
Janitor ==
  /\ cfg.CacheCleanupInterval > 0
  /\ \E k \in Ids : keysCache[k] # NoEntry /\ Expired(keysCache[k], now)
  /\ keysCache' = DeleteExpired(keysCache, now)
  /\ UNCHANGED <<store, now, cfg, call, last, ncalls, winners>>

Next ==
  \/ \E p \in Procs, id \in Ids : GetLookup(p, id)
  \/ \E p \in Procs, out \in GetItemOutcomes : GetItem(p, out)
  \/ \E p \in Procs : GetSet(p)
  \/ \E p \in Procs, id \in Ids, keys \in KeysArgs, out \in PutItemOutcomes :
       PutItem(p, id, keys, out)
  \/ \E p \in Procs : SetCache(p)
  \/ Tick
  \/ Janitor

Spec == Init /\ [][Next]_vars

\* ================================================================ claims
Returned == last.pc = "done"
SetInFlight(id) == {p \in Procs : call[p].op = "Set" /\ call[p].id = id}
\* what a consistent read of the table gives for id, decoded
Stored(id) == UnmarshalKeys(store[id])

\* C1 as stated: once a Set on an id has returned nil, every later Set on that
\* id returns IDAlreadyExistsStoreError{id}, and every later Get on it that
\* returns no error returns the keys of that first Set.
C1_CreateOnce_AsStated ==
  (Returned /\ last.prior # << >>) =>
     /\ last.op = "Set" => last.err = IDAlreadyExistsStoreError(last.id)
     /\ (last.op = "Get" /\ last.err = NoErr) => last.keys = last.prior[1]

\* C1, amended: once a Set on an id has returned nil, no later Set on that id
\* returns nil or changes the record; a later Set whose PutItem request is
\* answered by the table returns IDAlreadyExistsStoreError{id} (one whose
\* request fails for another reason returns that error); every later Get on
\* the id that returns no error returns the keys of the first Set.
C1_CreateOnce ==
  (Returned /\ last.prior # << >>) =>
     /\ last.op = "Set" =>
          /\ last.err # NoErr
          /\ last.out = "ok" => last.err = IDAlreadyExistsStoreError(last.id)
          /\ last.out = "err" => last.err = BackendError
     /\ (last.op = "Get" /\ last.err = NoErr) => last.keys = last.prior[1]
     /\ Stored(last.id) = last.prior[1]

\* a second Set with other keys was refused after the first had returned
C1_Witness ==
  /\ Returned /\ last.op = "Set" /\ last.prior # << >>
  /\ last.arg # last.prior[1]
  /\ last.err = IDAlreadyExistsStoreError(last.id)

\* C2: of the Set calls racing on one id exactly one returns nil and every
\* other one the table answers returns IDAlreadyExistsStoreError{id}; once
\* they have all returned, the table and the cache hold the winner's keys, and
\* a Get returns them and never a loser's.
C2_CreateRace ==
  \A id \in Ids :
    /\ Len(winners[id]) <= 1
    /\ (store[id] # NoItem /\ SetInFlight(id) = {}) =>
          /\ Len(winners[id]) = 1
          /\ Stored(id) = winners[id][1]
          /\ keysCache[id] # NoEntry => keysCache[id].Object = winners[id][1]
    /\ (Returned /\ last.op = "Set" /\ last.id = id /\ last.out = "ok") =>
          \/ last.err = NoErr /\ winners[id] # << >> /\ last.arg = winners[id][1]
          \/ /\ last.err = IDAlreadyExistsStoreError(id)
             /\ store[id] # NoItem
             /\ winners[id] # << >> => Stored(id) = winners[id][1]
    /\ (Returned /\ last.op = "Get" /\ last.id = id /\ last.err = NoErr
          /\ last.prior # << >>) => last.keys = winners[id][1]

\* the loser has returned while the winner, with other keys, is still in its call
C2_Witness ==
  /\ Returned /\ last.op = "Set" /\ last.err = IDAlreadyExistsStoreError(last.id)
  /\ last.prior = << >>
  /\ \E p \in Procs : /\ call[p].pc = "SetCache" /\ call[p].id = last.id
                      /\ call[p].arg # last.arg

\* C3: a Get invoked after Set(id, keys) returned nil, and returning no error,
\* returns exactly keys, from the cache entry as from the table.
C3_ReadYourWrite ==
  (Returned /\ last.op = "Get" /\ last.err = NoErr) =>
     \A i \in DOMAIN last.prior : last.keys = last.prior[i] /\ ~last.keys.isNil

\* the entry the Set wrote had expired and the keys were read back from the table
C3_Witness ==
  /\ Returned /\ last.op = "Get" /\ last.err = NoErr /\ last.prior # << >>
  /\ last.expired /\ last.src = "store" /\ last.keys = last.prior[1]

\* C4: a Get on an id that no conditional insert has created (the table is
\* append-only, so: that has no record when the Get returns), and whose
\* backend read does not fail, returns nil keys and no error.
C4_UnknownId ==
  (Returned /\ last.op = "Get" /\ last.out # "err" /\ store[last.id] = NoItem) =>
     last.keys = NilMap /\ last.err = NoErr /\ last.nreq = 1

\* absent was answered for one id while the other id has a record
C4_Witness ==
  /\ Returned /\ last.op = "Get" /\ last.out = "ok" /\ store[last.id] = NoItem
  /\ last.keys = NilMap /\ last.err = NoErr
  /\ \E k \in Ids : store[k] # NoItem

\* C5 as stated: what a Get returns does not depend on the cache (it is what a
\* read of the table gives), and under CacheExpiration = 0 every Get issues a
\* backend read.
C5_CacheTransparency_AsStated ==
  (Returned /\ last.op = "Get") =>
     /\ last.err = NoErr => last.keys \in {NilMap, Stored(last.id)}
     /\ cfg.CacheExpiration = 0 => last.nreq = 1

\* C6: every id with a cache entry has a record in the table.
C6_CacheSubsetOfStore ==
  \A id \in Ids : keysCache[id] # NoEntry => store[id] # NoItem

\* an entry put by a Get's backend read, still there after its time-to-live
C6_Witness ==
  /\ Returned /\ last.op = "Get" /\ last.src = "store" /\ last.touched
  /\ TtlElapsed(keysCache[last.id], now)

\* C7: a record of the table is never removed or changed, and no step of a Get
\* writes the table.
C7_AppendOnly ==
  [][ /\ \A id \in Ids : store[id] # NoItem => store'[id] = store[id]
      /\ (\E p \in Procs : call'[p] # call[p] /\ "Get" \in {call[p].op, call'[p].op})
            => store' = store ]_vars

\* a Set with other keys met the record, which is still as it was created
C7_Witness ==
  /\ Returned /\ last.op = "Set" /\ ~last.empty /\ last.out = "ok"
  /\ Len(last.prior) = 1 /\ last.arg # last.prior[1]
  /\ store[last.id] = MarshalMap(last.id, last.prior[1])

\* C8: a call that returns an error has not changed the cache.
C8_NoCacheMutationOnFailure ==
  /\ (Returned /\ last.err # NoErr) => ~last.touched
  /\ \A p \in Procs : call[p].pc \in {"GetItem", "SetCache"} => ~call[p].touched

\* a Get met an expired entry, its backend read failed, and the entry is as it was
C8_Witness ==
  /\ Returned /\ last.op = "Get" /\ last.err = BackendError /\ last.expired
  /\ keysCache[last.id] # NoEntry /\ keysCache[last.id].Object = last.stale
  /\ ~last.touched

\* C9 as stated: a Get that meets an entry whose time-to-live has elapsed
\* issues a backend read, returns the unchanged keys and re-populates the cache.
C9_Expiry_AsStated ==
  (Returned /\ last.op = "Get" /\ last.expired) =>
     /\ last.nreq = 1 /\ last.src = "store"
     /\ last.err = NoErr /\ last.keys = last.stale /\ last.cached

\* C9, amended: a Get that meets an entry whose time-to-live has elapsed does
\* not return that entry but issues one backend read; when the read answers
\* with a record that decodes, the Get returns the unchanged keys and
\* re-populates the cache; otherwise it returns the error.
C9_Expiry ==
  (Returned /\ last.op = "Get" /\ last.expired) =>
     /\ last.nreq = 1 /\ last.src = "store" /\ ~last.empty
     /\ last.out = "ok" => (last.err = NoErr /\ last.keys = last.stale /\ last.cached)
     /\ last.out # "ok" => (last.err # NoErr /\ ~last.touched)

\* the expired entry was replaced by a fresh one holding the same keys
C9_Witness ==
  /\ Returned /\ last.op = "Get" /\ last.expired /\ last.out = "ok"
  /\ last.keys = last.stale /\ ~last.keys.isNil /\ last.cached /\ last.touched
  /\ CacheFound(keysCache, last.id, now)

\* C10: a failed or undecodable backend read makes Get return an error with
\* nil keys; a PutItem that fails for another reason than the condition makes
\* Set return that error; no call issues more than one backend request.
C10_FailuresSurfaced ==
  /\ (Returned /\ last.op = "Get" /\ last.out \in {"err", "garbled"}) =>
        last.err \in {BackendError, UnmarshalError} /\ last.keys = NilMap
  /\ (Returned /\ last.op = "Get" /\ last.out = "err") => last.err = BackendError
  /\ (Returned /\ last.op = "Set" /\ last.out = "err") => last.err = BackendError
  /\ Returned => last.nreq <= 1
  /\ \A p \in Procs : call[p].nreq <= 1

\* a record that exists came back undecodable and the Get returned the error
C10_Witness ==
  /\ Returned /\ last.op = "Get" /\ last.out = "garbled"
  /\ last.err = UnmarshalError /\ store[last.id] # NoItem

\* C11: what a Set returns and does to the table is a function of the table
\* and of the backend's answer alone, whatever the cache holds: it issues its
\* one PutItem, returns the backend error when the request fails,
\* IDAlreadyExistsStoreError{id} when the table has the id, and otherwise
\* inserts the marshalled record and returns nil.
C11_UniquenessByBackend ==
  /\ (Returned /\ last.op = "Set") =>
        /\ last.nreq = 1
        /\ last.err = IF last.out = "err" THEN BackendError
                      ELSE IF last.empty THEN NoErr
                      ELSE IDAlreadyExistsStoreError(last.id)
        /\ last.err = NoErr => store[last.id] = MarshalMap(last.id, last.arg)
  /\ \A p \in Procs : call[p].pc = "SetCache" =>
        /\ call[p].nreq = 1 /\ call[p].empty
        /\ store[call[p].id] = MarshalMap(call[p].id, call[p].arg)

\* the cache served the very keys of the request, whose insert was still
\* issued and refused; the other id was inserted with the cache empty for it
C11_Witness ==
  /\ Returned /\ last.op = "Set" /\ last.cached /\ last.nreq = 1
  /\ last.err = IDAlreadyExistsStoreError(last.id)
  /\ \E p \in Procs : call[p].pc = "SetCache" /\ keysCache[call[p].id] = NoEntry

\* C12: a Get invoked while the cache holds an unexpired entry for its id
\* returns that entry's keys and no error, issues no backend request and
\* leaves the cache as it is (no step of a Get writes the table: C7).
C12_CacheHit ==
  (Returned /\ last.op = "Get" /\ last.hit) =>
     /\ last.src = "cache" /\ last.err = NoErr /\ last.nreq = 0 /\ last.out = "none"
     /\ ~last.touched /\ ~last.expired
     /\ last.cached

\* a hit on an entry that carries an expiry, while the table cannot be read
\* without a request
C12_Witness ==
  /\ Returned /\ last.op = "Get" /\ last.hit /\ last.nreq = 0
  /\ ~last.keys.isNil /\ keysCache[last.id].Expiration > 0

\* the step in which caller p's call writes the cache and returns: a Get that
\* read a record from the table, or a Set whose insert succeeded
Populates(p) == call[p].pc \in {"GetSet", "SetCache"} /\ call'[p].pc = "idle"
\* the expiry an entry written now gets under the configured default
DefaultExpiry == IF cfg.CacheExpiration > 0 THEN now + cfg.CacheExpiration ELSE 0

\* C13: when a Get returns keys read from the table, or a Set returns nil, the
\* cache holds (id -> those keys) under the default time-to-live as the call
\* returns, and serves it from then until that time-to-live has elapsed.
C13_PopulatedOnReturn ==
  /\ [](Returned /\ last.err = NoErr /\ (last.op = "Set" \/ ~last.keys.isNil)
          => last.cached)
  /\ [][ \A p \in Procs : Populates(p) =>
           LET id == call[p].id
               x  == IF call[p].op = "Set" THEN call[p].arg ELSE call[p].keys
           IN /\ last'.op = call[p].op /\ last'.id = id /\ last'.err = NoErr
              /\ last'.op = "Get" => last'.keys = x
              /\ keysCache'[id] = [Object |-> x, Expiration |-> DefaultExpiry]
              /\ \A t \in now..(now + cfg.CacheExpiration) : CacheFound(keysCache', id, t)
       ]_vars

\* a Get has just read the keys back after an expiry and the new entry counts
\* down from the time of the read
C13_Witness ==
  /\ Returned /\ last.op = "Get" /\ last.src = "store" /\ last.err = NoErr
  /\ last.cached /\ last.expired /\ cfg.CacheExpiration > 0
  /\ keysCache[last.id] = [Object |-> last.keys, Expiration |-> now + cfg.CacheExpiration]

\* C14 as stated: no step changes the expiry of an entry whose time-to-live
\* has not elapsed, and a Get is served from the cache only by such an entry.
C14_FixedCountdown_AsStated ==
  /\ [](Returned /\ last.src = "cache" => last.hit /\ ~last.expired)
  /\ [][ \A id \in Ids : (keysCache[id] # NoEntry /\ ~TtlElapsed(keysCache[id], now))
            => keysCache'[id] = keysCache[id] ]_vars

\* C14, amended: a cache hit leaves the entry and its expiry as they are, and
\* no entry is served once its expiry has passed; the expiry of an entry whose
\* time-to-live has not elapsed changes only when a call that populates the
\* cache (a Get that missed and read the table, a Set whose insert succeeded)
\* writes the id again, and the countdown then restarts from that write.
C14_FixedCountdown ==
  /\ [](Returned /\ last.src = "cache" => last.hit /\ ~last.expired /\ ~last.touched)
  /\ [](Returned /\ last.over => last.src # "cache" /\ last.err = NoErr)
  /\ [][ \A id \in Ids : (keysCache[id] # NoEntry /\ ~TtlElapsed(keysCache[id], now))
            => \/ keysCache'[id] = keysCache[id]
               \/ \E p \in Procs :
                    /\ Populates(p) /\ call[p].id = id
                    /\ keysCache'[id].Object = keysCache[id].Object
                    /\ keysCache'[id].Expiration = DefaultExpiry
                    /\ keysCache'[id].Expiration > keysCache[id].Expiration ]_vars

\* a Get that had missed the cache wrote the id again while the entry of the
\* Set was still served, and the id is now served beyond that entry's expiry
C14_Witness ==
  /\ Returned /\ last.op = "Get" /\ last.over /\ ~last.hit /\ ~last.expired
  /\ winners[last.id] # << >>
  /\ keysCache[last.id].Expiration = now + cfg.CacheExpiration

\* C15 as stated: a Get on an id whose record a Set created while the Get was
\* running returns absent or the keys of that Set, and a Get invoked after the
\* Set returned nil returns the keys of that Set.
C15_RaceConsistency_AsStated ==
  (Returned /\ last.op = "Get") =>
     /\ last.prior # << >> =>
           last.err = NoErr /\ last.keys = last.prior[1]
     /\ (last.prior = << >> /\ store[last.id] # NoItem) =>
           last.err = NoErr /\ last.keys \in {NilMap, Stored(last.id)}

\* C15, amended: a Get that completes without error returns the keys of the
\* Set if it was invoked after that Set returned nil; if it was invoked before,
\* it returns absent (its backend read found no record) or exactly the keys of
\* the Set that created the record, which is then at its cache write or has
\* returned nil. A Get that returns an error returns nil keys.
C15_RaceConsistency ==
  (Returned /\ last.op = "Get") =>
     /\ last.err # NoErr => last.keys = NilMap /\ last.out \in {"err", "garbled"}
     /\ (last.err = NoErr /\ last.prior # << >>) =>
           last.keys = last.prior[1] /\ ~last.keys.isNil
     /\ (last.err = NoErr /\ last.prior = << >>) =>
           \/ last.keys = NilMap /\ last.src = "store" /\ last.empty
           \/ /\ ~last.keys.isNil /\ last.keys = Stored(last.id)
              /\ \/ \E p \in SetInFlight(last.id) :
                       call[p].pc = "SetCache" /\ call[p].arg = last.keys
                 \/ winners[last.id] # << >> /\ winners[last.id][1] = last.keys

\* a Get returned the keys of a Set that has inserted the record and has not
\* returned yet
C15_Witness ==
  /\ Returned /\ last.op = "Get" /\ last.err = NoErr /\ last.prior = << >>
  /\ winners[last.id] = << >>
  /\ \E p \in SetInFlight(last.id) : call[p].pc = "SetCache" /\ call[p].arg = last.keys

\* Lines 108, 78-79, 47-48: the cache stores a pointer to the map the caller
\* passed to Set, Get returns the map it put in the cache and, on a hit, the
\* cached map itself. A caller that adds, changes or deletes entries in such a
\* map changes the cached map in place, leaving it the map g.
CallerMutates(id, g) ==
  /\ keysCache[id] # NoEntry
  /\ ~g.isNil /\ g # keysCache[id].Object
  /\ keysCache' = [keysCache EXCEPT ![id].Object = g]
  /\ UNCHANGED <<store, now, cfg, call, last, ncalls, winners>>

NextAlias == Next \/ \E id \in Ids, g \in GoMaps : CallerMutates(id, g)
\* the store used by callers that keep and change the maps they share with it
SpecAlias == Init /\ [][NextAlias]_vars

\* C16: after a Set on an id returned nil, whatever callers do with the maps
\* they passed or were returned, a Get on that id that returns no error
\* returns the keys as they were passed to that Set.
C16_ImmutableAgainstCallers ==
  (Returned /\ last.op = "Get" /\ last.err = NoErr /\ winners[last.id] # << >>
     /\ last.prior = winners[last.id]) =>
        last.keys = winners[last.id][1]

\* Lines 61-65, 96-106: the request carries the caller's ctx, so it ends when
\* the backend answers or when ctx is cancelled or its deadline passes (the
\* outcome "err"); lines 78-79 and 108-109 run without waiting on anything.
Fairness ==
  \A p \in Procs :
    /\ WF_vars(\E out \in GetItemOutcomes : GetItem(p, out))
    /\ WF_vars(GetSet(p))
    /\ WF_vars(SetCache(p))
\* the store when every request ends and every goroutine keeps running
SpecLive == Spec /\ Fairness

\* C17: every call returns; a call whose request is ended by the caller's
\* signal (or fails otherwise) returns the error with nil keys and leaves the
\* cache as it was; a cache hit returns at once, without a backend request.
C17_CancelAndTerminate ==
  /\ [](Returned /\ last.out = "err" =>
          last.err = BackendError /\ last.keys = NilMap /\ ~last.touched)
  /\ [](Returned /\ last.src = "cache" => last.nreq = 0 /\ last.out = "none")
  /\ \A p \in Procs : (call[p].pc # "idle") ~> (call[p].pc = "idle")

\* a Set whose request was cut off returned the error while a Get is waiting
\* for the backend; the cache has no entry for the id
C17_Witness ==
  /\ Returned /\ last.op = "Set" /\ last.out = "err" /\ last.err = BackendError
  /\ keysCache[last.id] = NoEntry
  /\ \E p \in Procs : call[p].pc = "GetItem" /\ call[p].id = last.id

\* C18: every cache entry holds, under its id, exactly the keys the table
\* holds for that id: never the keys of a Set that lost, never those of
\* another id.
C18_CacheCoherence ==
  \A id \in Ids : keysCache[id] # NoEntry =>
     /\ store[id] # NoItem /\ UnmarshalOk(store[id])
     /\ keysCache[id].Object = Stored(id)
     /\ winners[id] # << >> => keysCache[id].Object = winners[id][1]
     /\ \A p \in Procs : (call[p].pc = "GetSet" /\ call[p].id = id) =>
           call[p].keys = keysCache[id].Object

\* both ids are cached with different keys, and a Set that offered one id the
\* keys of the other has lost
C18_Witness ==
  /\ Returned /\ last.op = "Set" /\ last.err = IDAlreadyExistsStoreError(last.id)
  /\ keysCache[last.id] # NoEntry /\ last.arg # keysCache[last.id].Object
  /\ \E k \in Ids : k # last.id /\ keysCache[k] # NoEntry /\ keysCache[k].Object = last.arg

\* C19 as stated: a Get whose backend read finds no record leaves the cache
\* as it is, absent is never answered from the cache, and a Get invoked after
\* a Set on its id returned nil returns the keys of that Set.
C19_NoNegativeCaching_AsStated ==
  (Returned /\ last.op = "Get") =>
     /\ (last.out = "ok" /\ last.empty) => ~last.touched /\ last.keys = NilMap
     /\ last.keys = NilMap => last.src = "store"
     /\ last.prior # << >> => last.keys = last.prior[1]

\* C19, amended: a Get whose backend read finds no record leaves the cache as
\* it is, and absent is never answered from the cache; a Get invoked after a
\* Set on its id returned nil returns the keys of that Set if it completes
\* without error, and otherwise the error of its failed backend read.
C19_NoNegativeCaching ==
  (Returned /\ last.op = "Get") =>
     /\ (last.out = "ok" /\ last.empty) =>
           /\ ~last.touched /\ last.keys = NilMap /\ last.err = NoErr
           /\ last.prior = << >> /\ ~last.hit
     /\ last.keys = NilMap => last.src = "store" /\ last.nreq = 1
     /\ last.src = "cache" => ~last.keys.isNil /\ store[last.id] # NoItem
     /\ last.prior # << >> =>
           \/ last.err = NoErr /\ last.keys = last.prior[1] /\ ~last.empty
           \/ /\ last.err # NoErr /\ last.out \in {"err", "garbled"}
              /\ ~last.hit /\ last.nreq = 1

\* a Get answered absent and left no entry; the Set that came after it has
\* inserted the record and is about to populate the cache
C19_Witness ==
  /\ Returned /\ last.op = "Get" /\ last.out = "ok" /\ last.empty
  /\ last.keys = NilMap /\ last.err = NoErr
  /\ keysCache[last.id] = NoEntry /\ store[last.id] # NoItem
  /\ \E p \in SetInFlight(last.id) : call[p].pc = "SetCache"

\* Lines 85-88: SetEncryptedDataKeysConditionally accepts every value of type
\* map[string]string, the nil map and the empty map included
NextAny ==
  \/ Next
  \/ \E p \in Procs, id \in Ids, keys \in GoMaps \ KeysArgs, out \in PutItemOutcomes :
        PutItem(p, id, keys, out)
\* the store used with every keys value the method accepts
SpecAny == Init /\ [][NextAny]_vars

\* C20: a Get that returns no error returns nil keys only if its backend read
\* found no record: never on a cache hit, and never for an id whose record a
\* Set that returned nil created, whatever keys that Set was given.
C20_AbsentMeansNoRecord ==
  (Returned /\ last.op = "Get" /\ last.err = NoErr) =>
     /\ last.keys.isNil => last.src = "store" /\ last.empty
     /\ last.prior # << >> => ~last.keys.isNil
====
